---- MODULE Spec2Model ----
(***************************************************************************)
(* Model of pylenium/webdriver_factory.py: the factory that resolves a     *)
(* browser name, option strings and capabilities into an options object    *)
(* and builds a local or a remote WebDriver.                               *)
(*                                                                         *)
(* Every public function of the module is one action.  A call is atomic    *)
(* (the module is single-threaded and synchronous); the state after a call *)
(* holds the function called, its arguments, the ordered log of the calls  *)
(* it made (module functions and external collaborators), and the value    *)
(* returned or the exception raised.  The module keeps nothing between     *)
(* calls: Forget returns to the initial state before the next call.        *)
(*                                                                         *)
(* Python values are modelled as follows.                                  *)
(*   str (browser names)  sequence of one-character strings, so that       *)
(*                        str.lower() is computed character by character   *)
(*   str (other)          TLA+ string                                      *)
(*   dict                 set of <<key, value>> pairs with distinct keys   *)
(*   None / list / dict   tagged record  [t, list, dict]  (PyNone, ...)    *)
(*   Optional[str]        tagged record  [t, s]                            *)
(***************************************************************************)
EXTENDS Integers, Sequences, FiniteSets, TLC

VARIABLES
    fn,        \* name of the public function that was called ("none" initially)
    args,      \* its arguments
    events,    \* ordered log of the calls made while it ran
    exc,       \* exception that left the call: [type, msg]; type "none" when it returned
    ret        \* value returned: [t, options, driver]

vars == <<fn, args, events, exc, ret>>

(***************************************************************************)
(* Bounds of the model                                                     *)
(***************************************************************************)
MaxOptions == 2      \* longest browser_options list
MaxCaps == 2         \* longest capabilities list

(***************************************************************************)
(* Python values                                                           *)
(***************************************************************************)
PyNone == [t |-> "None", list |-> <<>>, dict |-> {}]
PyList(s) == [t |-> "list", list |-> s, dict |-> {}]
PyDict(d) == [t |-> "dict", list |-> <<>>, dict |-> d]

\* bool(x) for None, a list or a dict: empty containers and None are falsy.
Truthy(x) ==
    CASE x.t = "None" -> FALSE
      [] x.t = "list" -> Len(x.list) > 0
      [] x.t = "dict" -> x.dict # {}

StrNone == [t |-> "None", s |-> ""]
Str(s) == [t |-> "str", s |-> s]

\* bool(x) for an Optional[str]
StrTruthy(u) == u.t = "str" /\ u.s # ""

Keys(d) == {p[1] : p \in d}

\* d[key] = value
DictSet(d, key, value) == {p \in d : p[1] # key} \cup {<<key, value>>}

\* d[key], for key in d
DictGet(d, key) == (CHOOSE p \in d : p[1] = key)[2]

(***************************************************************************)
(* class Browser                                                           *)
(***************************************************************************)
CHROME == <<"c", "h", "r", "o", "m", "e">>
EDGE == <<"e", "d", "g", "e">>
FIREFOX == <<"f", "i", "r", "e", "f", "o", "x">>
IE == <<"i", "e">>
OPERA == <<"o", "p", "e", "r", "a">>

(***************************************************************************)
(* str.lower()                                                             *)
(***************************************************************************)
UpperToLower ==
    [A |-> "a", B |-> "b", C |-> "c", D |-> "d", E |-> "e", F |-> "f",
     G |-> "g", H |-> "h", I |-> "i", J |-> "j", K |-> "k", L |-> "l",
     M |-> "m", N |-> "n", O |-> "o", P |-> "p", Q |-> "q", R |-> "r",
     S |-> "s", T |-> "t", U |-> "u", V |-> "v", W |-> "w", X |-> "x",
     Y |-> "y", Z |-> "z"]

LowerChar(c) == IF c \in DOMAIN UpperToLower THEN UpperToLower[c] ELSE c

lower_identity(s) == s

lower(s) == [i \in 1..Len(s) |-> LowerChar(s[i])]

(***************************************************************************)
(* selenium's DesiredCapabilities: one dict per browser                    *)
(***************************************************************************)
DesiredCapabilities_CHROME ==
    {<<"browserName", "chrome">>, <<"version", "">>, <<"platform", "ANY">>}
DesiredCapabilities_FIREFOX ==
    {<<"browserName", "firefox">>, <<"marionette", "True">>,
     <<"acceptInsecureCerts", "True">>}
DesiredCapabilities_INTERNETEXPLORER ==
    {<<"browserName", "internet explorer">>, <<"version", "">>,
     <<"platform", "WINDOWS">>}
DesiredCapabilities_OPERA ==
    {<<"browserName", "opera">>, <<"version", "">>, <<"platform", "ANY">>}
DesiredCapabilities_EDGE ==
    {<<"browserName", "MicrosoftEdge">>, <<"version", "">>,
     <<"platform", "WINDOWS">>}

(***************************************************************************)
(* Outcomes of a call: a returned value or a raised exception              *)
(***************************************************************************)
NoOptions == [shape |-> "none", arguments |-> <<>>, caps |-> {}]
NoValue == [t |-> "None", options |-> NoOptions, driver |-> "none"]
OptionsValue(o) == [t |-> "options", options |-> o, driver |-> "none"]
DriverValue(d, o) == [t |-> "WebDriver", options |-> o, driver |-> d]

NoExc == [type |-> "none", msg |-> <<>>]
Raised(type, msg) == [exc |-> [type |-> type, msg |-> msg], ret |-> NoValue]
Returned(value) == [exc |-> NoExc, ret |-> value]

\* Tail of the f-string of the unsupported-browser ValueError.
NOT_SUPPORTED ==
    <<" is not supported. https://elsnoman.gitbook.io/pylenium/configuration/driver">>

(***************************************************************************)
(* build_options                                                           *)
(***************************************************************************)
\* The options object constructed for a (lower-cased) browser name; "none"
\* stands for the else branch that raises.  The options classes belong to
\* selenium; they are modelled by the interface build_options relies on:
\* add_argument appends to the argument list, set_capability stores
\* caps[name] = value, and a new object starts with its browser's
\* DesiredCapabilities as capability store.
NewOptions_defaults_to_chrome(browser) ==
    CASE browser = FIREFOX ->
            [shape |-> "FirefoxOptions", arguments |-> <<>>, caps |-> DesiredCapabilities_FIREFOX]
      [] browser = IE ->
            [shape |-> "IeOptions", arguments |-> <<>>, caps |-> DesiredCapabilities_INTERNETEXPLORER]
      [] browser = EDGE ->
            [shape |-> "EdgeOptions", arguments |-> <<>>, caps |-> DesiredCapabilities_EDGE]
      [] OTHER ->
            [shape |-> "ChromeOptions", arguments |-> <<>>, caps |-> DesiredCapabilities_CHROME]

NewOptions(browser) ==
    CASE browser = CHROME ->
            [shape |-> "ChromeOptions", arguments |-> <<>>, caps |-> DesiredCapabilities_CHROME]
      [] browser = FIREFOX ->
            [shape |-> "FirefoxOptions", arguments |-> <<>>, caps |-> DesiredCapabilities_FIREFOX]
      [] browser = IE ->
            [shape |-> "IeOptions", arguments |-> <<>>, caps |-> DesiredCapabilities_INTERNETEXPLORER]
      [] browser = OPERA ->
            [shape |-> "ChromeOptions", arguments |-> <<>>, caps |-> DesiredCapabilities_CHROME]
      [] browser = EDGE ->
            [shape |-> "EdgeOptions", arguments |-> <<>>, caps |-> DesiredCapabilities_EDGE]
      [] OTHER -> NoOptions

RECURSIVE add_arguments_dedup(_, _)
add_arguments_dedup(options, browser_options) ==
    IF browser_options = <<>> THEN options
    ELSE LET arg == "--" \o Head(browser_options)
             seen == \E i \in 1..Len(options.arguments) : options.arguments[i] = arg
         IN add_arguments_dedup(
                IF seen THEN options
                ELSE [options EXCEPT !.arguments = Append(@, arg)],
                Tail(browser_options))

\* for option in browser_options: options.add_argument(f'--{option}')
RECURSIVE add_arguments(_, _)
add_arguments(options, browser_options) ==
    IF browser_options = <<>> THEN options
    ELSE add_arguments(
            [options EXCEPT !.arguments = Append(@, "--" \o Head(browser_options))],
            Tail(browser_options))

RECURSIVE set_capabilities_first_write(_, _)
set_capabilities_first_write(options, caps) ==
    IF caps = <<>> THEN Returned(OptionsValue(options))
    ELSE LET cap == Head(caps) IN
         IF Cardinality(cap) = 0
         THEN Raised("ValueError", <<"not enough values to unpack (expected 1, got 0)">>)
         ELSE IF Cardinality(cap) > 1
         THEN Raised("ValueError", <<"too many values to unpack (expected 1)">>)
         ELSE LET kv == CHOOSE p \in cap : TRUE IN
              set_capabilities_first_write(
                  IF kv[1] \in Keys(options.caps) THEN options
                  ELSE [options EXCEPT !.caps = DictSet(@, kv[1], kv[2])],
                  Tail(caps))

\* for cap in capabilities: (key, value), = cap.items(); options.set_capability(key, value)
\* over a list of dicts: a dict with no entry or with several fails the unpacking.
RECURSIVE set_capabilities(_, _)
set_capabilities(options, caps) ==
    IF caps = <<>> THEN Returned(OptionsValue(options))
    ELSE LET cap == Head(caps) IN
         IF Cardinality(cap) = 0
         THEN Raised("ValueError", <<"not enough values to unpack (expected 1, got 0)">>)
         ELSE IF Cardinality(cap) > 1
         THEN Raised("ValueError", <<"too many values to unpack (expected 1)">>)
         ELSE LET kv == CHOOSE p \in cap : TRUE IN
              set_capabilities(
                  [options EXCEPT !.caps = DictSet(@, kv[1], kv[2])],
                  Tail(caps))

\* The capability block of build_options.  Iterating a dict yields its keys,
\* which are strings, and a string has no items().
apply_capabilities(options, capabilities) ==
    IF ~Truthy(capabilities) THEN Returned(OptionsValue(options))
    ELSE IF capabilities.t = "dict"
    THEN Raised("AttributeError", <<"'str' object has no attribute 'items'">>)
    ELSE set_capabilities(options, capabilities.list)

build_options(browser, browser_options, capabilities) ==
    LET b == lower(browser)
        options == NewOptions(b)
    IN IF options.shape = "none"
       THEN Raised("ValueError", b \o NOT_SUPPORTED)
       ELSE apply_capabilities(add_arguments(options, browser_options), capabilities)

(***************************************************************************)
(* Log entries: the calls a public function makes, in the order made       *)
(***************************************************************************)
OptionsCall(browser, browser_options, capabilities) ==
    [op |-> "build_options", browser |-> browser,
     browser_options |-> browser_options, capabilities |-> capabilities]
BuilderCall(name, version, browser_options) ==
    [op |-> name, version |-> version, browser_options |-> browser_options]
EdgeCall(version, browser_options, capabilities) ==
    [op |-> "build_edge", version |-> version,
     browser_options |-> browser_options, capabilities |-> capabilities]
RemoteCall(browser, remote_url, browser_options, capabilities) ==
    [op |-> "build_remote", browser |-> browser, remote_url |-> remote_url,
     browser_options |-> browser_options, capabilities |-> capabilities]
InstallCall(manager, version) ==
    [op |-> "install", manager |-> manager, version |-> version]
SpawnCall(driver, path, options, passed_as) ==
    [op |-> "spawn", driver |-> driver, path |-> path, options |-> options,
     passed_as |-> passed_as]
SessionCall(command_executor, desired_capabilities, options) ==
    [op |-> "Remote", command_executor |-> command_executor,
     desired_capabilities |-> desired_capabilities, options |-> options]

Outcome(evs, r) == [events |-> evs, exc |-> r.exc, ret |-> r.ret]

\* Path returned by <Manager>(version=version).install()
InstalledPath(manager, version) == manager \o "/" \o version

(***************************************************************************)
(* Local builders.  Each is                                                *)
(*     options = build_options('<name>', browser_options, <caps>)          *)
(*     return webdriver.<Driver>(<Manager>(version=version).install(), ..) *)
(* The binary provisioner and the driver constructor are external; either  *)
(* may fail (installOk, spawnOk).                                          *)
(***************************************************************************)
local_driver_install_first(browser, manager, driver, passed_as, version, browser_options, capabilities, installOk, spawnOk) ==
    LET o == build_options(browser, browser_options, capabilities)
        e1 == <<InstallCall(manager, version)>>
        e2 == e1 \o <<OptionsCall(browser, browser_options, capabilities)>>
        path == InstalledPath(manager, version)
        e3 == e2 \o <<SpawnCall(driver, path, o.ret.options, passed_as)>>
    IN IF ~installOk
       THEN Outcome(e1, Raised("BinaryProvisioningFailure", <<manager>>))
       ELSE IF o.exc.type # "none" THEN Outcome(e2, o)
       ELSE IF ~spawnOk
       THEN Outcome(e3, Raised("WebDriverException", <<driver>>))
       ELSE Outcome(e3, Returned(DriverValue(driver, o.ret.options)))

local_driver(browser, manager, driver, passed_as, version, browser_options, capabilities, installOk, spawnOk) ==
    LET o == build_options(browser, browser_options, capabilities)
        e1 == <<OptionsCall(browser, browser_options, capabilities)>>
        e2 == e1 \o <<InstallCall(manager, version)>>
        path == InstalledPath(manager, version)
        e3 == e2 \o <<SpawnCall(driver, path, o.ret.options, passed_as)>>
    IN IF o.exc.type # "none" THEN Outcome(e1, o)
       ELSE IF ~installOk
       THEN Outcome(e2, Raised("BinaryProvisioningFailure", <<manager>>))
       ELSE IF ~spawnOk
       THEN Outcome(e3, Raised("WebDriverException", <<driver>>))
       ELSE Outcome(e3, Returned(DriverValue(driver, o.ret.options)))

build_chrome(version, browser_options, installOk, spawnOk) ==
    local_driver(CHROME, "ChromeDriverManager", "Chrome", "options",
                 version, browser_options, PyNone, installOk, spawnOk)

build_edge_without_capabilities(version, browser_options, capabilities, installOk, spawnOk) ==
    local_driver(EDGE, "EdgeChromiumDriverManager", "Edge", "capabilities",
                 version, browser_options, PyNone, installOk, spawnOk)

\* Edge receives the caller's capabilities and hands the driver
\* options.to_capabilities() instead of the options object.
build_edge(version, browser_options, capabilities, installOk, spawnOk) ==
    local_driver(EDGE, "EdgeChromiumDriverManager", "Edge", "capabilities",
                 version, browser_options, capabilities, installOk, spawnOk)

build_firefox(version, browser_options, installOk, spawnOk) ==
    local_driver(FIREFOX, "GeckoDriverManager", "Firefox", "options",
                 version, browser_options, PyNone, installOk, spawnOk)

build_ie(version, browser_options, installOk, spawnOk) ==
    local_driver(IE, "IEDriverManager", "Ie", "options",
                 version, browser_options, PyNone, installOk, spawnOk)

build_opera(version, browser_options, installOk, spawnOk) ==
    local_driver(OPERA, "OperaDriverManager", "Opera", "options",
                 version, browser_options, PyNone, installOk, spawnOk)

(***************************************************************************)
(* build_remote                                                            *)
(***************************************************************************)
\* The default capability set chosen for a (lower-cased) browser name.
default_caps(browser) ==
    CASE browser = CHROME -> PyDict(DesiredCapabilities_CHROME)
      [] browser = FIREFOX -> PyDict(DesiredCapabilities_FIREFOX)
      [] browser = IE -> PyDict(DesiredCapabilities_INTERNETEXPLORER)
      [] browser = OPERA -> PyDict(DesiredCapabilities_OPERA)
      [] browser = EDGE -> PyDict(DesiredCapabilities_EDGE)
      [] OTHER -> PyDict({})

RECURSIVE SetToSeq(_)
SetToSeq(S) ==
    IF S = {} THEN <<>>
    ELSE LET x == CHOOSE y \in S : TRUE IN <<x>> \o SetToSeq(S \ {x})

remote_caps_merged(browser, capabilities) ==
    LET dflt == default_caps(lower(browser)).dict
        given == UNION {Keys(capabilities.list[i]) : i \in 1..Len(capabilities.list)}
        missing == {{p} : p \in {q \in dflt : q[1] \notin given}}
    IN IF Truthy(capabilities)
       THEN PyList(capabilities.list \o SetToSeq(missing))
       ELSE default_caps(lower(browser))

\* caps after "if capabilities: caps = capabilities"
remote_caps(browser, capabilities) ==
    IF Truthy(capabilities) THEN capabilities ELSE default_caps(lower(browser))

build_remote(browser, remote_url, browser_options, capabilities, remoteOk) ==
    LET b == lower(browser)
        caps == remote_caps(browser, capabilities)
        o == build_options(b, browser_options, caps)
        e1 == <<OptionsCall(b, browser_options, caps)>>
        e2 == e1 \o <<SessionCall(remote_url, caps, o.ret.options)>>
    IN IF o.exc.type # "none" THEN Outcome(e1, o)
       ELSE IF ~remoteOk
       THEN Outcome(e2, Raised("RemoteSessionFailure", <<remote_url.s>>))
       ELSE Outcome(e2, Returned(DriverValue("Remote", o.ret.options)))

(***************************************************************************)
(* build_from_config                                                       *)
(***************************************************************************)
Prefixed(call, out) == [out EXCEPT !.events = <<call>> \o @]

build_from_config_browser_first(config, installOk, spawnOk, remoteOk) ==
    LET d == config
        browser == lower(d.browser)
    IN CASE browser = CHROME ->
               Prefixed(BuilderCall("build_chrome", d.version, d.options),
                        build_chrome(d.version, d.options, installOk, spawnOk))
         [] browser = FIREFOX ->
               Prefixed(BuilderCall("build_firefox", d.version, d.options),
                        build_firefox(d.version, d.options, installOk, spawnOk))
         [] browser = IE ->
               Prefixed(BuilderCall("build_ie", d.version, d.options),
                        build_ie(d.version, d.options, installOk, spawnOk))
         [] browser = OPERA ->
               Prefixed(BuilderCall("build_opera", d.version, d.options),
                        build_opera(d.version, d.options, installOk, spawnOk))
         [] browser = EDGE ->
               Prefixed(EdgeCall(d.version, d.options, d.capabilities),
                        build_edge(d.version, d.options, d.capabilities, installOk, spawnOk))
         [] OTHER ->
               IF StrTruthy(d.remote_url)
               THEN Prefixed(RemoteCall(d.browser, d.remote_url, d.options, d.capabilities),
                             build_remote(d.browser, d.remote_url, d.options,
                                          d.capabilities, remoteOk))
               ELSE Outcome(<<>>, Raised("ValueError", d.browser \o NOT_SUPPORTED))

\* config stands for config.driver, the only part of PyleniumConfig read.
build_from_config(config, installOk, spawnOk, remoteOk) ==
    LET d == config
        browser == lower(d.browser)
    IN IF StrTruthy(d.remote_url)
       THEN Prefixed(RemoteCall(d.browser, d.remote_url, d.options, d.capabilities),
                     build_remote(d.browser, d.remote_url, d.options,
                                  d.capabilities, remoteOk))
       ELSE CASE browser = CHROME ->
               Prefixed(BuilderCall("build_chrome", d.version, d.options),
                        build_chrome(d.version, d.options, installOk, spawnOk))
         [] browser = FIREFOX ->
               Prefixed(BuilderCall("build_firefox", d.version, d.options),
                        build_firefox(d.version, d.options, installOk, spawnOk))
         [] browser = IE ->
               Prefixed(BuilderCall("build_ie", d.version, d.options),
                        build_ie(d.version, d.options, installOk, spawnOk))
         [] browser = OPERA ->
               Prefixed(BuilderCall("build_opera", d.version, d.options),
                        build_opera(d.version, d.options, installOk, spawnOk))
         [] browser = EDGE ->
               Prefixed(EdgeCall(d.version, d.options, d.capabilities),
                        build_edge(d.version, d.options, d.capabilities, installOk, spawnOk))
         [] OTHER ->
               Outcome(<<>>, Raised("ValueError", d.browser \o NOT_SUPPORTED))

(***************************************************************************)
(* Inputs                                                                  *)
(***************************************************************************)
SeqsUpTo(S, n) == UNION {[1..k -> S] : k \in 0..n}

\* Browser names: the five names in several letter cases (all four of "ie"),
\* names that are not supported, and the empty string.
BrowserNames ==
    {CHROME, <<"C", "h", "r", "o", "m", "e">>,
     FIREFOX, <<"F", "i", "r", "e", "F", "o", "x">>,
     IE, <<"I", "E">>, <<"I", "e">>, <<"i", "E">>,
     OPERA, <<"O", "P", "E", "R", "A">>,
     EDGE, <<"E", "d", "g", "e">>,
     <<"s", "a", "f", "a", "r", "i">>, <<"S", "a", "f", "a", "r", "i">>, <<>>}

OptionNames == {"headless", "incognito"}
OptionLists == SeqsUpTo(OptionNames, MaxOptions)

\* Elements of a capabilities list: single-key dicts, among them two values
\* of one key and a key of the default sets, and dicts of the wrong size.
CapabilityDicts ==
    {{<<"browserName", "custom">>}, {<<"browserName", "other">>},
     {<<"enableVNC", "True">>}, {},
     {<<"enableVNC", "True">>, <<"platform", "LINUX">>}}
CapabilityLists == {PyNone} \cup {PyList(s) : s \in SeqsUpTo(CapabilityDicts, MaxCaps)}

Versions == {"latest", "86.0"}
RemoteUrls == {StrNone, Str(""), Str("http://grid:4444/wd/hub")}

\* What the external collaborators do during a call: all succeed, or the
\* first one reached of the named kind fails (a failure ends the call).
ExternalOutcomes == {"ok", "install fails", "spawn fails", "session fails"}
LocalOutcomes == {"ok", "install fails", "spawn fails"}
RemoteOutcomes == {"ok", "session fails"}

Configs ==
    [browser : BrowserNames, version : Versions, remote_url : RemoteUrls,
     options : OptionLists, capabilities : CapabilityLists]

(***************************************************************************)
(* State machine: the module holds no state of its own; a state is the     *)
(* latest call and what it did.                                            *)
(***************************************************************************)
NoArgs ==
    [browser |-> <<>>, version |-> "", remote_url |-> StrNone,
     options |-> <<>>, capabilities |-> PyNone]

Init ==
    /\ fn = "none"
    /\ args = NoArgs
    /\ events = <<>>
    /\ exc = NoExc
    /\ ret = NoValue

Finish(name, a, out) ==
    /\ fn' = name
    /\ args' = a
    /\ events' = out.events
    /\ exc' = out.exc
    /\ ret' = out.ret

Call_build_options ==
    /\ fn = "none"
    /\ \E b \in BrowserNames, o \in OptionLists, c \in CapabilityLists :
          Finish("build_options",
                 [NoArgs EXCEPT !.browser = b, !.options = o, !.capabilities = c],
                 Outcome(<<>>, build_options(b, o, c)))

Call_build_from_config ==
    /\ fn = "none"
    /\ \E cfg \in Configs, ext \in ExternalOutcomes :
          Finish("build_from_config", cfg,
                 build_from_config(cfg, ext # "install fails", ext # "spawn fails",
                                   ext # "session fails"))

Call_build_chrome ==
    /\ fn = "none"
    /\ \E v \in Versions, o \in OptionLists, ext \in LocalOutcomes :
          Finish("build_chrome",
                 [NoArgs EXCEPT !.version = v, !.options = o],
                 build_chrome(v, o, ext # "install fails", ext # "spawn fails"))

Call_build_edge ==
    /\ fn = "none"
    /\ \E v \in Versions, o \in OptionLists, c \in CapabilityLists,
          ext \in LocalOutcomes :
          Finish("build_edge",
                 [NoArgs EXCEPT !.version = v, !.options = o, !.capabilities = c],
                 build_edge(v, o, c, ext # "install fails", ext # "spawn fails"))

Call_build_firefox ==
    /\ fn = "none"
    /\ \E v \in Versions, o \in OptionLists, ext \in LocalOutcomes :
          Finish("build_firefox",
                 [NoArgs EXCEPT !.version = v, !.options = o],
                 build_firefox(v, o, ext # "install fails", ext # "spawn fails"))

Call_build_ie ==
    /\ fn = "none"
    /\ \E v \in Versions, o \in OptionLists, ext \in LocalOutcomes :
          Finish("build_ie",
                 [NoArgs EXCEPT !.version = v, !.options = o],
                 build_ie(v, o, ext # "install fails", ext # "spawn fails"))

Call_build_opera ==
    /\ fn = "none"
    /\ \E v \in Versions, o \in OptionLists, ext \in LocalOutcomes :
          Finish("build_opera",
                 [NoArgs EXCEPT !.version = v, !.options = o],
                 build_opera(v, o, ext # "install fails", ext # "spawn fails"))

Call_build_remote ==
    /\ fn = "none"
    /\ \E b \in BrowserNames, u \in RemoteUrls, o \in OptionLists,
          c \in CapabilityLists, ext \in RemoteOutcomes :
          Finish("build_remote",
                 [NoArgs EXCEPT !.browser = b, !.remote_url = u, !.options = o,
                                !.capabilities = c],
                 build_remote(b, u, o, c, ext # "session fails"))

\* The caller is done with the outcome; the next call starts afresh.
Forget ==
    /\ fn # "none"
    /\ fn' = "none"
    /\ args' = NoArgs
    /\ events' = <<>>
    /\ exc' = NoExc
    /\ ret' = NoValue

Next ==
    \/ Call_build_options
    \/ Call_build_from_config
    \/ Call_build_chrome
    \/ Call_build_edge
    \/ Call_build_firefox
    \/ Call_build_ie
    \/ Call_build_opera
    \/ Call_build_remote
    \/ Forget

Spec == Init /\ [][Next]_vars

(***************************************************************************)
(* Vocabulary of the properties                                            *)
(***************************************************************************)
Uppers == <<"A", "B", "C", "D", "E", "F", "G", "H", "I", "J", "K", "L", "M",
            "N", "O", "P", "Q", "R", "S", "T", "U", "V", "W", "X", "Y", "Z">>
Lowers == <<"a", "b", "c", "d", "e", "f", "g", "h", "i", "j", "k", "l", "m",
            "n", "o", "p", "q", "r", "s", "t", "u", "v", "w", "x", "y", "z">>

SameLetter(c, d) ==
    c = d \/ \E i \in 1..Len(Uppers) : {c, d} = {Uppers[i], Lowers[i]}

\* s and t are the same name up to letter case
SameName(s, t) ==
    Len(s) = Len(t) /\ \A i \in 1..Len(s) : SameLetter(s[i], t[i])

HasNoUpper(s) == \A i \in 1..Len(s) : \A j \in 1..Len(Uppers) : s[i] # Uppers[j]

Supported == {CHROME, FIREFOX, IE, OPERA, EDGE}
IsSupported(b) == \E k \in Supported : SameName(b, k)

HasEvent(op) == \E i \in 1..Len(events) : events[i].op = op
Positions(op) == {i \in 1..Len(events) : events[i].op = op}

\* the call went down the remote path / the local path
RemotePath ==
    \/ fn = "build_remote"
    \/ fn = "build_from_config" /\ StrTruthy(args.remote_url)
LocalDispatch == fn = "build_from_config" /\ ~StrTruthy(args.remote_url)
LocalPath ==
    \/ fn \in {"build_chrome", "build_edge", "build_firefox", "build_ie", "build_opera"}
    \/ LocalDispatch /\ IsSupported(args.browser)

\* a list of single-key dicts
SingleKeyed(c) ==
    c.t = "list" /\ \A i \in 1..Len(c.list) : Cardinality(c.list[i]) = 1
\* absent, or a list of single-key dicts (possibly empty)
WellFormed(c) == c.t = "None" \/ SingleKeyed(c)

UnsupportedError(value) ==
    exc.type = "ValueError" /\ exc.msg = value \o NOT_SUPPORTED
IsUnsupportedError ==
    /\ exc.type = "ValueError"
    /\ Len(exc.msg) >= 1
    /\ SubSeq(exc.msg, Len(exc.msg), Len(exc.msg)) = NOT_SUPPORTED

(***************************************************************************)
(* C1                                                                      *)
(***************************************************************************)
\* C1: on the remote path a browser name that is none of the five names in
\* any letter case does not end in the unsupported-browser error: the
\* baseline is empty when the caller gave no capabilities, and the call
\* reaches the opening of the remote session.
C1_RemoteTolerance ==
    (RemotePath /\ ~IsSupported(args.browser)) =>
        /\ ~IsUnsupportedError
        /\ HasEvent("Remote")
        /\ ~Truthy(args.capabilities) =>
              \A i \in Positions("build_options") :
                  events[i].capabilities = PyDict({})

(***************************************************************************)
(* C2                                                                      *)
(***************************************************************************)
\* C2: on the remote path with a supported browser and no caller
\* capabilities the baseline is the browser's default set, the options are
\* resolved with it, every default capability is applied to the options
\* object, and the remote session is opened with that baseline and options.
C2_DefaultFallback ==
    \A k \in Supported :
        (RemotePath /\ SameName(args.browser, k) /\ ~Truthy(args.capabilities)) =>
            /\ \E i \in Positions("build_options") :
                  events[i].capabilities = default_caps(k)
            /\ \E j \in Positions("Remote") :
                  /\ events[j].desired_capabilities = default_caps(k)
                  /\ default_caps(k).dict \subseteq events[j].options.caps

(***************************************************************************)
(* C3                                                                      *)
(***************************************************************************)
SuppliedKeys(c) == UNION {Keys(c.list[i]) : i \in 1..Len(c.list)}
BaselineKeys(c) ==
    IF c.t = "dict" THEN Keys(c.dict) ELSE SuppliedKeys(c)

\* C3: when the caller gives at least one capability on the remote path, the
\* baseline handed to the options resolver and to the remote session is
\* exactly the caller's list, and holds no key the caller did not supply.
C3_AllOrNothing ==
    (RemotePath /\ Truthy(args.capabilities)) =>
        /\ HasEvent("build_options")
        /\ \A i \in Positions("build_options") :
              /\ events[i].capabilities = args.capabilities
              /\ BaselineKeys(events[i].capabilities) \subseteq SuppliedKeys(args.capabilities)
        /\ \A j \in Positions("Remote") :
              /\ events[j].desired_capabilities = args.capabilities
              /\ BaselineKeys(events[j].desired_capabilities)
                    \subseteq SuppliedKeys(args.capabilities)

C3_Witness ==
    /\ fn = "build_remote"
    /\ SameName(args.browser, CHROME)
    /\ args.capabilities = PyList(<<{<<"enableVNC", "True">>}>>)
    /\ \E j \in Positions("Remote") :
          /\ events[j].desired_capabilities = args.capabilities
          /\ "browserName" \notin BaselineKeys(events[j].desired_capabilities)

(***************************************************************************)
(* C4                                                                      *)
(***************************************************************************)
UnsupportedCall ==
    /\ fn = "build_options" \/ LocalDispatch
    /\ ~IsSupported(args.browser)

NothingBuilt ==
    /\ ret = NoValue
    /\ ~HasEvent("install")
    /\ ~HasEvent("spawn")
    /\ ~HasEvent("Remote")

\* C4 as stated: build_options, and build_from_config without a remote_url,
\* fail on an unsupported name with the unsupported-browser error whose
\* message names the value given; nothing is returned, provisioned or spawned.
C4_Original ==
    UnsupportedCall => (UnsupportedError(args.browser) /\ NothingBuilt)

\* C4 amended: as C4, except that the message of build_options names the
\* value in lower case (build_from_config names it as given).
C4_UnsupportedIsTerminal ==
    UnsupportedCall =>
        /\ NothingBuilt
        /\ IsUnsupportedError
        /\ LET named == SubSeq(exc.msg, 1, Len(exc.msg) - 1)
           IN IF fn = "build_options"
              THEN SameName(named, args.browser) /\ HasNoUpper(named)
              ELSE named = args.browser

C4_Witness ==
    /\ fn = "build_options"
    /\ args.browser = <<"S", "a", "f", "a", "r", "i">>
    /\ exc.type = "ValueError"
    /\ exc.msg = <<"s", "a", "f", "a", "r", "i">> \o NOT_SUPPORTED
    /\ ret = NoValue

(***************************************************************************)
(* C5                                                                      *)
(***************************************************************************)
\* C5: for a supported browser, build_options returns an options object whose
\* argument list is the input list with "--" before each element: same
\* length, same order, duplicates kept.
C5_ArgumentOrder ==
    (fn = "build_options" /\ IsSupported(args.browser) /\ WellFormed(args.capabilities)) =>
        /\ exc.type = "none"
        /\ ret.t = "options"
        /\ Len(ret.options.arguments) = Len(args.options)
        /\ \A i \in 1..Len(args.options) :
              ret.options.arguments[i] = "--" \o args.options[i]

C5_Witness ==
    /\ fn = "build_options"
    /\ args.browser = <<"F", "i", "r", "e", "F", "o", "x">>
    /\ Len(args.options) = MaxOptions
    /\ \A i \in 1..Len(args.options) : args.options[i] = "headless"
    /\ \A i \in 1..Len(args.options) : ret.options.arguments[i] = "--headless"
    /\ Len(ret.options.arguments) = MaxOptions

(***************************************************************************)
(* C6                                                                      *)
(***************************************************************************)
\* value of the last dict of the list that holds the key
LastValue(list, key) ==
    LET at == {i \in 1..Len(list) : key \in Keys(list[i])}
        last == CHOOSE i \in at : \A j \in at : j <= i
    IN DictGet(list[last], key)

\* the capability store a fresh options object of that browser starts with
InitialStore(k) ==
    CASE k = CHROME -> DesiredCapabilities_CHROME
      [] k = FIREFOX -> DesiredCapabilities_FIREFOX
      [] k = IE -> DesiredCapabilities_INTERNETEXPLORER
      [] k = OPERA -> DesiredCapabilities_CHROME
      [] k = EDGE -> DesiredCapabilities_EDGE

\* C6: build_options with a list of single-key dicts maps every supplied key
\* to the value of its last occurrence; with no capabilities (None or an
\* empty list) the capability store is the initial one.
C6_LastWriteWins ==
    \A k \in Supported :
        (fn = "build_options" /\ SameName(args.browser, k) /\ WellFormed(args.capabilities)) =>
            /\ exc.type = "none"
            /\ IF Truthy(args.capabilities)
               THEN \A key \in SuppliedKeys(args.capabilities) :
                        /\ Cardinality({p \in ret.options.caps : p[1] = key}) = 1
                        /\ DictGet(ret.options.caps, key)
                              = LastValue(args.capabilities.list, key)
               ELSE ret.options.caps = InitialStore(k)

C6_Witness ==
    /\ fn = "build_options"
    /\ args.browser = CHROME
    /\ args.capabilities =
          PyList(<<{<<"browserName", "custom">>}, {<<"browserName", "other">>}>>)
    /\ ret.t = "options"
    /\ DictGet(ret.options.caps, "browserName") = "other"

(***************************************************************************)
(* C7                                                                      *)
(***************************************************************************)
LocalBuilders ==
    {"build_chrome", "build_edge", "build_firefox", "build_ie", "build_opera"}

\* C7: build_from_config takes the remote path exactly when remote_url is
\* non-empty, whatever the browser.  On that path it calls build_remote with
\* the config's browser, remote_url, options and capabilities as they are,
\* its outcome is build_remote's, and nothing is provisioned or spawned; with
\* an empty or absent remote_url no remote session is opened.
C7_RemoteBeforeBrowser ==
    fn = "build_from_config" =>
        IF StrTruthy(args.remote_url)
        THEN /\ Len(events) >= 1
             /\ events[1] = RemoteCall(args.browser, args.remote_url,
                                       args.options, args.capabilities)
             /\ \E remoteOk \in BOOLEAN :
                   LET direct == build_remote(args.browser, args.remote_url,
                                              args.options, args.capabilities, remoteOk)
                   IN /\ Tail(events) = direct.events
                      /\ exc = direct.exc
                      /\ ret = direct.ret
             /\ ~HasEvent("install")
             /\ ~HasEvent("spawn")
             /\ \A i \in 1..Len(events) : events[i].op \notin LocalBuilders
        ELSE /\ ~HasEvent("build_remote")
             /\ ~HasEvent("Remote")

C7_Witness ==
    /\ fn = "build_from_config"
    /\ StrTruthy(args.remote_url)
    /\ args.browser = <<"E", "d", "g", "e">>
    /\ events[1].op = "build_remote"
    /\ HasEvent("Remote")
    /\ ret.driver = "Remote"

(***************************************************************************)
(* C8                                                                      *)
(***************************************************************************)
\* C8: a supported name in any letter case selects, at each of the three
\* dispatch sites, what the all-lower-case name selects: build_options
\* returns the same options, the local branch of build_from_config runs the
\* same builder, and build_remote picks the same default capability set.
C8_CaseInsensitive ==
    \A k \in Supported :
        SameName(args.browser, k) =>
            /\ fn = "build_options" =>
                  LET byLower == build_options(k, args.options, args.capabilities)
                  IN exc = byLower.exc /\ ret = byLower.ret
            /\ LocalDispatch =>
                  \E installOk, spawnOk \in BOOLEAN :
                      LET byLower == build_from_config([args EXCEPT !.browser = k],
                                                       installOk, spawnOk, TRUE)
                      IN events = byLower.events /\ exc = byLower.exc /\ ret = byLower.ret
            /\ fn = "build_remote" =>
                  \E remoteOk \in BOOLEAN :
                      LET byLower == build_remote(k, args.remote_url, args.options,
                                                  args.capabilities, remoteOk)
                      IN events = byLower.events /\ exc = byLower.exc /\ ret = byLower.ret

C8_Witness ==
    /\ LocalDispatch
    /\ args.browser = <<"I", "e">>
    /\ events[1].op = "build_ie"
    /\ ret.driver = "Ie"

(***************************************************************************)
(* C9                                                                      *)
(***************************************************************************)
\* C9 as stated: on the local path the options resolver is called with no
\* capability set, for all five browsers.
C9_Original ==
    LocalPath =>
        /\ HasEvent("build_options")
        /\ \A i \in Positions("build_options") : events[i].capabilities = PyNone

\* C9 amended: on the local path the options resolver is called with no
\* capability set for chrome, firefox, ie and opera, whose driver is spawned
\* with the initial capability store; for edge it is called with the
\* capabilities of the configuration.
C9_LocalCapabilities ==
    LocalPath =>
        /\ HasEvent("build_options")
        /\ \A i \in Positions("build_options") :
              IF events[i].browser = EDGE
              THEN events[i].capabilities = args.capabilities
              ELSE /\ events[i].capabilities = PyNone
                   /\ \A j \in Positions("spawn") :
                         events[j].options.caps = InitialStore(events[i].browser)

C9_Witness ==
    /\ LocalDispatch
    /\ SameName(args.browser, EDGE)
    /\ args.capabilities = PyList(<<{<<"enableVNC", "True">>}>>)
    /\ \E i \in Positions("build_options") : events[i].capabilities = args.capabilities
    /\ \E j \in Positions("spawn") : <<"enableVNC", "True">> \in events[j].options.caps

(***************************************************************************)
(* C10                                                                     *)
(***************************************************************************)
Before(op1, op2) ==
    \A i \in Positions(op1) : \A j \in Positions(op2) : i < j

\* C10 as stated: in a local builder install happens before the options
\* resolver is invoked, the driver is spawned after both, and so a failure
\* of the resolver is seen only after provisioning was attempted.
C10_Original ==
    LocalPath =>
        /\ Before("install", "build_options")
        /\ HasEvent("spawn") => (HasEvent("install") /\ HasEvent("build_options"))
        /\ Before("install", "spawn") /\ Before("build_options", "spawn")
        /\ HasEvent("build_options") => HasEvent("install")

\* C10 amended: in a local builder the options resolver is invoked first,
\* install(kind, version) is called only after it returned, and the driver
\* is spawned after both; a failure of the resolver ends the call before
\* provisioning is attempted.
C10_LocalStepOrder ==
    LocalPath =>
        /\ HasEvent("build_options")
        /\ Before("build_options", "install")
        /\ HasEvent("spawn") => HasEvent("install")
        /\ Before("install", "spawn") /\ Before("build_options", "spawn")
        /\ exc.type \in {"ValueError", "AttributeError"} => ~HasEvent("install")
        /\ \A i \in Positions("install") : events[i].version = args.version

C10_Witness ==
    /\ fn = "build_from_config"
    /\ LocalPath
    /\ Len(events) = 4
    /\ events[2].op = "build_options"
    /\ events[3].op = "install"
    /\ events[4].op = "spawn"
    /\ ret.t = "WebDriver"

====
